---- MODULE Spec2Model ----
(***************************************************************************)
(* Document intelligence pipeline of AI_Engineer_Assessment:               *)
(*   classifier.py  DocumentClassifier.classify / _apply_rules             *)
(*   extractor.py   DataExtractor.extract and its field extractors         *)
(*   retrieval.py   SemanticRetrieval add_document / search / _save_index  *)
(*   main.py        startup_event, upload_document, search_documents       *)
(* Texts are TLA+ strings; a character is a string of length 1.            *)
(***************************************************************************)
EXTENDS Integers, Sequences, FiniteSets, TLC

----------------------------------------------------------------------------
(* Python str primitives *)

Char(s, i) == SubSeq(s, i, i)

CharsOf(s) == {Char(s, i) : i \in 1..Len(s)}

UpperAlphabet == "ABCDEFGHIJKLMNOPQRSTUVWXYZ"
LowerAlphabet == "abcdefghijklmnopqrstuvwxyz"

UpperLetter == CharsOf(UpperAlphabet)
LowerLetter == CharsOf(LowerAlphabet)
Letter == UpperLetter \cup LowerLetter
Digit == CharsOf("0123456789")
\* str.isspace / regex \s (ASCII)
Whitespace == {" ", "\t", "\n", "\r", "\f"}
\* regex \w (ASCII)
WordChar == Letter \cup Digit \cup {"_"}

IndexIn(alphabet, c) == CHOOSE i \in 1..Len(alphabet) : Char(alphabet, i) = c

\* str.lower / str.upper on one character
LowerChar(c) == IF c \in UpperLetter THEN Char(LowerAlphabet, IndexIn(UpperAlphabet, c)) ELSE c
UpperChar(c) == IF c \in LowerLetter THEN Char(UpperAlphabet, IndexIn(LowerAlphabet, c)) ELSE c

\* the recursions over a whole text split it in halves, which keeps them shallow
RECURSIVE lower(_)
lower(s) ==
    IF Len(s) <= 1 THEN LowerChar(s)
    ELSE lower(SubSeq(s, 1, Len(s) \div 2)) \o lower(SubSeq(s, Len(s) \div 2 + 1, Len(s)))

RECURSIVE upper(_)
upper(s) ==
    IF Len(s) <= 1 THEN UpperChar(s)
    ELSE upper(SubSeq(s, 1, Len(s) \div 2)) \o upper(SubSeq(s, Len(s) \div 2 + 1, Len(s)))

RECURSIVE lstrip(_)
lstrip(s) == IF s # "" /\ Char(s, 1) \in Whitespace THEN lstrip(Tail(s)) ELSE s

RECURSIVE rstrip(_)
rstrip(s) ==
    IF s # "" /\ Char(s, Len(s)) \in Whitespace THEN rstrip(SubSeq(s, 1, Len(s) - 1)) ELSE s

\* str.strip()
strip(s) == rstrip(lstrip(s))

\* kw in text
Contains(text, kw) ==
    \E i \in 1..(Len(text) - Len(kw) + 1) : SubSeq(text, i, i + Len(kw) - 1) = kw

\* text[:n]
Prefix(text, n) == SubSeq(text, 1, IF Len(text) < n THEN Len(text) ELSE n)

----------------------------------------------------------------------------
(* Python re: the subset of pattern syntax the extractor's patterns use.   *)
(* A pattern is a sequence of items, matched left to right by backtracking *)
(* with Python's priorities: a repetition is greedy, an alternation tries  *)
(* its branches in order; search takes the leftmost start.                 *)

Lit(s) == [k |-> "lit", s |-> s]
\* cls{lo,hi}; hi = -1 is no upper limit
Rep(cls, lo, hi) == [k |-> "rep", cls |-> cls, lo |-> lo, hi |-> hi]
Star(cls) == Rep(cls, 0, -1)
Plus(cls) == Rep(cls, 1, -1)
Opt(c) == Rep({c}, 0, 1)
Alt(alts) == [k |-> "alt", alts |-> alts]
\* the parentheses of capture group n
GroupOpen(n) == [k |-> "open", n |-> n]
GroupClose(n) == [k |-> "close", n |-> n]
WordBoundary == [k |-> "wb"]

NoMatch == [ok |-> FALSE]

\* a character against a class, under re.IGNORECASE when ic
InClass(c, cls, ic) ==
    \/ c \in cls
    \/ ic /\ (LowerChar(c) \in cls \/ UpperChar(c) \in cls)

LitAt(text, pos, s, ic) ==
    /\ pos + Len(s) - 1 <= Len(text)
    /\ \/ s = ""
       \/ /\ InClass(Char(text, pos), {Char(s, 1)}, ic)
          /\ LET sub == SubSeq(text, pos, pos + Len(s) - 1)
             IN  IF ic THEN lower(sub) = lower(s) ELSE sub = s

\* how many consecutive characters from pos are in cls, at most hi
RECURSIVE RunLen(_, _, _, _, _)
RunLen(text, pos, cls, ic, hi) ==
    IF hi # 0 /\ pos <= Len(text) /\ InClass(Char(text, pos), cls, ic)
    THEN 1 + RunLen(text, pos + 1, cls, ic, IF hi = -1 THEN -1 ELSE hi - 1)
    ELSE 0

IsWordAt(text, pos) == pos >= 1 /\ pos <= Len(text) /\ Char(text, pos) \in WordChar

RECURSIVE MatchFrom(_, _, _, _, _, _)
RECURSIVE TryRep(_, _, _, _, _, _, _)
RECURSIVE TryAlt(_, _, _, _, _, _, _)

\* items k.. of p against text from pos; g[n] is the span of group n so far
MatchFrom(p, k, text, pos, ic, g) ==
    IF k > Len(p) THEN [ok |-> TRUE, end |-> pos, g |-> g]
    ELSE LET it == p[k] IN
      CASE it.k = "lit" ->
             IF LitAt(text, pos, it.s, ic)
             THEN MatchFrom(p, k + 1, text, pos + Len(it.s), ic, g)
             ELSE NoMatch
        [] it.k = "rep" ->
             TryRep(p, k, text, pos, ic, g, RunLen(text, pos, it.cls, ic, it.hi))
        [] it.k = "alt" -> TryAlt(p, k, text, pos, ic, g, 1)
        [] it.k = "open" -> MatchFrom(p, k + 1, text, pos, ic, [g EXCEPT ![it.n].s = pos])
        [] it.k = "close" -> MatchFrom(p, k + 1, text, pos, ic, [g EXCEPT ![it.n].e = pos])
        [] it.k = "wb" ->
             IF IsWordAt(text, pos - 1) # IsWordAt(text, pos)
             THEN MatchFrom(p, k + 1, text, pos, ic, g)
             ELSE NoMatch

\* greedy repetition: n characters first, then n-1, ... down to lo
TryRep(p, k, text, pos, ic, g, n) ==
    IF n < p[k].lo THEN NoMatch
    ELSE LET r == MatchFrom(p, k + 1, text, pos + n, ic, g)
         IN  IF r.ok THEN r ELSE TryRep(p, k, text, pos, ic, g, n - 1)

\* alternation: branch j first, then j+1, ...
TryAlt(p, k, text, pos, ic, g, j) ==
    IF j > Len(p[k].alts) THEN NoMatch
    ELSE LET a == p[k].alts[j]
             r == IF LitAt(text, pos, a, ic)
                  THEN MatchFrom(p, k + 1, text, pos + Len(a), ic, g)
                  ELSE NoMatch
         IN  IF r.ok THEN r ELSE TryAlt(p, k, text, pos, ic, g, j + 1)

\* the patterns below use at most three groups
NoGroups == [n \in 1..3 |-> [s |-> 0, e |-> 0]]

\* the match object of a match r that started at start
MatchObject(r, start) ==
    IF r.ok THEN [ok |-> TRUE, start |-> start, end |-> r.end, g |-> r.g] ELSE NoMatch

RECURSIVE SearchIn(_, _, _, _, _)
\* the match at the leftmost start in lo..hi that has one
SearchIn(p, text, ic, lo, hi) ==
    IF lo = hi THEN MatchObject(MatchFrom(p, 1, text, lo, ic, NoGroups), lo)
    ELSE LET mid == (lo + hi) \div 2
             left == SearchIn(p, text, ic, lo, mid)
         IN  IF left.ok THEN left ELSE SearchIn(p, text, ic, mid + 1, hi)

\* re.search(pattern, text, flags)
re_search(p, text, ic) == SearchIn(p, text, ic, 1, Len(text) + 1)

\* re.match(pattern, text, flags): at the start of text only
re_match(p, text, ic) == MatchObject(MatchFrom(p, 1, text, 1, ic, NoGroups), 1)

\* match.group(0), match.group(n)
Group0(text, m) == SubSeq(text, m.start, m.end - 1)
Group(text, m, n) == SubSeq(text, m.g[n].s, m.g[n].e - 1)

----------------------------------------------------------------------------
(* classifier.py *)

DOCUMENT_TYPES == <<"Invoice", "Resume", "Utility Bill", "Other", "Unclassifiable">>

\* confidences are in hundredths: 0.3 is 30, 0.5 is 50
MinTextLen == 10
SampleLen == 2000
ConfidenceFloor == 30
DemoteConfidence == 50
OverrideCount == 3
WeakCount == 2

invoice_keywords ==
    <<"invoice", "invoice number", "invoice #", "bill to",
      "total amount", "amount due", "payment terms", "subtotal",
      "tax", "vat", "due date">>

resume_keywords ==
    <<"resume", "curriculum vitae", "cv", "experience",
      "education", "skills", "objective", "professional summary",
      "work history", "employment", "qualifications">>

utility_keywords ==
    <<"utility", "electric", "electricity", "gas", "water",
      "kwh", "kilowatt", "meter", "usage", "service address",
      "account number", "billing period", "current charges">>

\* the places of text at which kw starts
Occurrences(text, kw) ==
    {i \in 1..(Len(text) - Len(kw) + 1) : SubSeq(text, i, i + Len(kw) - 1) = kw}

RECURSIVE SumOver(_, _, _)
\* each(1) + ... + each(n)
SumOver(text_lower, keywords, n) ==
    IF n = 0 THEN 0
    ELSE Cardinality(Occurrences(text_lower, keywords[n])) + SumOver(text_lower, keywords, n - 1)

\* the count with text_lower.count(kw) summed over the keywords
KeywordCount_per_occurrence(text_lower, keywords) ==
    SumOver(text_lower, keywords, Len(keywords))

\* sum(1 for kw in keywords if kw in text_lower)
KeywordCount(text_lower, keywords) ==
    Cardinality({i \in 1..Len(keywords) : Contains(text_lower, keywords[i])})

Max3(a, b, c) ==
    LET ab == IF a >= b THEN a ELSE b IN IF ab >= c THEN ab ELSE c

\* _apply_rules with the Resume override tested before the Invoice override
_apply_rules_resume_first(text, predicted_class, confidence) ==
    LET text_lower == lower(text)
        invoice_count == KeywordCount(text_lower, invoice_keywords)
        resume_count == KeywordCount(text_lower, resume_keywords)
        utility_count == KeywordCount(text_lower, utility_keywords)
    IN  IF resume_count >= OverrideCount /\ predicted_class # "Resume" THEN "Resume"
        ELSE IF invoice_count >= OverrideCount /\ predicted_class # "Invoice" THEN "Invoice"
        ELSE IF utility_count >= OverrideCount /\ predicted_class # "Utility Bill"
             THEN "Utility Bill"
        ELSE IF /\ confidence < DemoteConfidence
                /\ Max3(invoice_count, resume_count, utility_count) < WeakCount
             THEN "Other"
        ELSE predicted_class

\* _apply_rules with the demotion taken up to and including two keywords
_apply_rules_demote_inclusive(text, predicted_class, confidence) ==
    LET text_lower == lower(text)
        invoice_count == KeywordCount(text_lower, invoice_keywords)
        resume_count == KeywordCount(text_lower, resume_keywords)
        utility_count == KeywordCount(text_lower, utility_keywords)
    IN  IF invoice_count >= OverrideCount /\ predicted_class # "Invoice" THEN "Invoice"
        ELSE IF resume_count >= OverrideCount /\ predicted_class # "Resume" THEN "Resume"
        ELSE IF utility_count >= OverrideCount /\ predicted_class # "Utility Bill"
             THEN "Utility Bill"
        ELSE IF /\ confidence < DemoteConfidence
                /\ Max3(invoice_count, resume_count, utility_count) <= WeakCount
             THEN "Other"
        ELSE predicted_class

\* _apply_rules with the demotion reaching up to the override threshold
_apply_rules_demote_strong(text, predicted_class, confidence) ==
    LET text_lower == lower(text)
        invoice_count == KeywordCount(text_lower, invoice_keywords)
        resume_count == KeywordCount(text_lower, resume_keywords)
        utility_count == KeywordCount(text_lower, utility_keywords)
    IN  IF invoice_count >= OverrideCount /\ predicted_class # "Invoice" THEN "Invoice"
        ELSE IF resume_count >= OverrideCount /\ predicted_class # "Resume" THEN "Resume"
        ELSE IF utility_count >= OverrideCount /\ predicted_class # "Utility Bill"
             THEN "Utility Bill"
        ELSE IF /\ confidence < DemoteConfidence
                /\ Max3(invoice_count, resume_count, utility_count) <= OverrideCount
             THEN "Other"
        ELSE predicted_class

\* _apply_rules, lines 113-152
_apply_rules(text, predicted_class, confidence) ==
    LET text_lower == lower(text)
        invoice_count == KeywordCount(text_lower, invoice_keywords)
        resume_count == KeywordCount(text_lower, resume_keywords)
        utility_count == KeywordCount(text_lower, utility_keywords)
    IN  IF invoice_count >= OverrideCount /\ predicted_class # "Invoice" THEN "Invoice"
        ELSE IF resume_count >= OverrideCount /\ predicted_class # "Resume" THEN "Resume"
        ELSE IF utility_count >= OverrideCount /\ predicted_class # "Utility Bill"
             THEN "Utility Bill"
        ELSE IF /\ confidence < DemoteConfidence
                /\ Max3(invoice_count, resume_count, utility_count) < WeakCount
             THEN "Other"
        ELSE predicted_class

\* What one call of the zero-shot pipeline does: it raises, or it returns its
\* top label (result['labels'][0]) and that label's score (result['scores'][0]).
ClassifierRaises == [raises |-> TRUE, label |-> "", score |-> 0]
ClassifierReturns(label, score) == [raises |-> FALSE, label |-> label, score |-> score]

\* The outcome of classify: the label returned (or raised = TRUE when an
\* exception leaves classify), how many times the pipeline was called and the
\* text it was called with.
ClassifyResult(label, invoked, sample) ==
    [label |-> label, raised |-> FALSE, invoked |-> invoked, sample |-> sample]

\* classify with the length guard on the text as given
classify_unstripped(text, outcome) ==
    IF text = "" \/ Len(text) < MinTextLen
    THEN ClassifyResult("Unclassifiable", 0, "")
    ELSE LET text_sample == Prefix(text, SampleLen) IN
         IF outcome.raises THEN ClassifyResult("Unclassifiable", 1, text_sample)
         ELSE IF outcome.score < ConfidenceFloor
              THEN ClassifyResult("Unclassifiable", 1, text_sample)
         ELSE ClassifyResult(_apply_rules(text, outcome.label, outcome.score), 1, text_sample)

\* classify with the rules applied first and the floor only to a label they kept
classify_rules_first(text, outcome) ==
    IF text = "" \/ Len(strip(text)) < MinTextLen
    THEN ClassifyResult("Unclassifiable", 0, "")
    ELSE LET text_sample == Prefix(text, SampleLen) IN
         IF outcome.raises THEN ClassifyResult("Unclassifiable", 1, text_sample)
         ELSE IF /\ _apply_rules(text, outcome.label, outcome.score) = outcome.label
                 /\ outcome.score < ConfidenceFloor
              THEN ClassifyResult("Unclassifiable", 1, text_sample)
         ELSE ClassifyResult(_apply_rules(text, outcome.label, outcome.score), 1, text_sample)

\* classify without the except clause: the pipeline's exception leaves classify
classify_propagating(text, outcome) ==
    IF text = "" \/ Len(strip(text)) < MinTextLen
    THEN ClassifyResult("Unclassifiable", 0, "")
    ELSE LET text_sample == Prefix(text, SampleLen) IN
         IF outcome.raises
         THEN [label |-> "", raised |-> TRUE, invoked |-> 1, sample |-> text_sample]
         ELSE IF outcome.score < ConfidenceFloor
              THEN ClassifyResult("Unclassifiable", 1, text_sample)
         ELSE ClassifyResult(_apply_rules(text, outcome.label, outcome.score), 1, text_sample)

\* classify, lines 53-81
classify(text, outcome) ==
    IF text = "" \/ Len(strip(text)) < MinTextLen
    THEN ClassifyResult("Unclassifiable", 0, "")
    ELSE LET text_sample == Prefix(text, SampleLen) IN
         IF outcome.raises THEN ClassifyResult("Unclassifiable", 1, text_sample)
         ELSE IF outcome.score < ConfidenceFloor
              THEN ClassifyResult("Unclassifiable", 1, text_sample)
         ELSE ClassifyResult(_apply_rules(text, outcome.label, outcome.score), 1, text_sample)

----------------------------------------------------------------------------
(* extractor.py: Optional values, numbers, patterns *)

\* Optional[...]: None, or a value
None == [some |-> FALSE]
Some(v) == [some |-> TRUE, v |-> v]

RECURSIVE ToInt(_)
\* int() of a string of digits ("" is 0, for the parts of a float)
ToInt(s) ==
    IF s = "" THEN 0
    ELSE 10 * ToInt(SubSeq(s, 1, Len(s) - 1)) + (IndexIn("0123456789", Char(s, Len(s))) - 1)

RECURSIVE IntToStr(_)
IntToStr(n) ==
    IF n < 10 THEN Char("0123456789", n + 1)
    ELSE IntToStr(n \div 10) \o Char("0123456789", (n % 10) + 1)

RECURSIVE ZeroPad(_, _)
\* '%0wd'
ZeroPad(s, w) == IF Len(s) >= w THEN s ELSE ZeroPad("0" \o s, w)

RECURSIVE Remove(_, _)
\* s.replace(c, '')
Remove(s, c) ==
    IF s = "" THEN ""
    ELSE (IF Char(s, 1) = c THEN "" ELSE Char(s, 1)) \o Remove(Tail(s), c)

RECURSIVE Pow10(_)
Pow10(n) == IF n = 0 THEN 1 ELSE 10 * Pow10(n - 1)

RECURSIVE Normalized(_)
\* a decimal num / 10^scale without trailing zeros in its fraction
Normalized(x) ==
    IF x.scale > 0 /\ x.num % 10 = 0
    THEN Normalized([num |-> x.num \div 10, scale |-> x.scale - 1])
    ELSE x

\* float(s) for s of the form digits* '.'? digits*; ValueError (None) when s
\* holds no digit. The value is the decimal num / 10^scale.
ParseFloat(s) ==
    LET dot == IF Contains(s, ".") THEN CHOOSE i \in 1..Len(s) : Char(s, i) = "." ELSE 0
        ip == IF dot = 0 THEN s ELSE SubSeq(s, 1, dot - 1)
        fp == IF dot = 0 THEN "" ELSE SubSeq(s, dot + 1, Len(s))
    IN  IF ip \o fp = "" THEN None
        ELSE Some(Normalized([num |-> ToInt(ip \o fp), scale |-> Len(fp)]))

\* Python truthiness of a returned value: `if value:`
TruthyStr(o) == o.some /\ o.v # ""
TruthyOrNone(o) == IF TruthyStr(o) THEN o ELSE None
TruthyFloat(o) == o.some /\ o.v.num # 0
TruthyInt(o) == o.some /\ o.v # 0

WS == Star(Whitespace)
WS1 == Plus(Whitespace)
D(n) == Rep(Digit, n, n)
\* [A-Z0-9\-]
IdChar == UpperLetter \cup Digit \cup {"-"}
\* [\d,]+\.?\d*
AmountGroup == <<GroupOpen(1), Plus(Digit \cup {","}), Opt("."), Star(Digit), GroupClose(1)>>
IdGroup == <<GroupOpen(1), Plus(IdChar), GroupClose(1)>>

invoice_number_patterns ==
    << <<Lit("invoice"), WS, Opt("#"), WS, Opt(":"), WS>> \o IdGroup,
       <<Lit("inv"), WS, Opt("#"), WS, Opt(":"), WS>> \o IdGroup,
       <<Lit("invoice"), WS, Lit("number"), WS, Opt(":"), WS>> \o IdGroup >>

MonthAbbr == <<"Jan", "Feb", "Mar", "Apr", "May", "Jun", "Jul", "Aug", "Sep", "Oct", "Nov", "Dec">>

date_patterns ==
    << <<D(4), Lit("-"), D(2), Lit("-"), D(2)>>,
       <<D(2), Lit("/"), D(2), Lit("/"), D(4)>>,
       <<D(2), Lit("-"), D(2), Lit("-"), D(4)>>,
       <<Alt(MonthAbbr), Star(LowerLetter), WS1, Rep(Digit, 1, 2), Opt(","), WS1, D(4)>> >>

amount_patterns ==
    << <<Lit("total"), WS, Lit("amount"), WS, Opt(":"), WS, Opt("$"), WS>> \o AmountGroup,
       <<Lit("amount"), WS, Lit("due"), WS, Opt(":"), WS, Opt("$"), WS>> \o AmountGroup,
       <<Lit("total"), WS, Opt(":"), WS, Opt("$"), WS>> \o AmountGroup,
       <<Lit("grand"), WS, Lit("total"), WS, Opt(":"), WS, Opt("$"), WS>> \o AmountGroup >>

email_pattern ==
    <<WordBoundary, Plus(Letter \cup Digit \cup CharsOf("._%+-")), Lit("@"),
      Plus(Letter \cup Digit \cup CharsOf(".-")), Lit("."),
      Rep(Letter \cup {"|"}, 2, -1), WordBoundary>>

\* [-.\s]?
PhoneSep == Rep(CharsOf("-.") \cup Whitespace, 0, 1)

phone_patterns ==
    << <<Opt("+"), Rep(Digit, 1, 3), PhoneSep, Opt("("), D(3), Opt(")"), PhoneSep, D(3),
         PhoneSep, D(4)>>,
       <<D(3), Lit("-"), D(3), Lit("-"), D(4)>>,
       <<Lit("("), D(3), Lit(")"), WS, D(3), Lit("-"), D(4)>> >>

account_number_pattern ==
    <<Lit("account"), WS, Lit("number"), WS, Opt(":"), WS>> \o IdGroup

usage_pattern ==
    <<GroupOpen(1), Plus(Digit), Opt("."), Star(Digit), GroupClose(1), WS, Lit("kwh")>>

experience_patterns ==
    << <<GroupOpen(1), Plus(Digit), GroupClose(1), WS, Opt("+"), WS, Lit("year"), Opt("s"),
         WS, Alt(<<"of", "">>), WS, Lit("experience")>>,
       <<Lit("experience"), WS, Opt(":"), WS, GroupOpen(1), Plus(Digit), GroupClose(1), WS,
         Opt("+"), WS, Lit("year"), Opt("s")>> >>

company_pattern ==
    <<GroupOpen(1), Rep(UpperLetter, 1, 1), Plus(Letter \cup Whitespace \cup {"&"}),
      Alt(<<"Inc", "LLC", "Ltd", "Corporation", "Corp", "Company", "Co">>), Opt("."),
      GroupClose(1)>>

----------------------------------------------------------------------------
(* datetime.strptime / strftime, as _normalize_date uses them *)

\* _strptime's regex for %m and for %d: the branches in their order
MonthNums ==
    <<"10", "11", "12">> \o [i \in 1..9 |-> "0" \o IntToStr(i)] \o [i \in 1..9 |-> IntToStr(i)]
DayNums ==
    <<"30", "31">> \o [i \in 1..20 |-> IntToStr(9 + i)] \o [i \in 1..9 |-> "0" \o IntToStr(i)]
      \o [i \in 1..9 |-> IntToStr(i)] \o [i \in 1..9 |-> " " \o IntToStr(i)]

MonthFull ==
    <<"january", "february", "march", "april", "may", "june", "july", "august",
      "september", "october", "november", "december">>

\* group 1 is the year, group 2 the month, group 3 the day
YearItems == <<GroupOpen(1), D(4), GroupClose(1)>>
MonthItems(names) == <<GroupOpen(2), Alt(names), GroupClose(2)>>
DayItems == <<GroupOpen(3), Alt(DayNums), GroupClose(3)>>

\* the format strings of _normalize_date, in its order; names is the table a
\* month name is looked up in (<<>> for a numeric month)
formats ==
    << [pat |-> YearItems \o <<Lit("-")>> \o MonthItems(MonthNums) \o <<Lit("-")>> \o DayItems,
        names |-> <<>>],
       [pat |-> MonthItems(MonthNums) \o <<Lit("/")>> \o DayItems \o <<Lit("/")>> \o YearItems,
        names |-> <<>>],
       [pat |-> DayItems \o <<Lit("-")>> \o MonthItems(MonthNums) \o <<Lit("-")>> \o YearItems,
        names |-> <<>>],
       [pat |-> MonthItems(MonthFull) \o <<WS1>> \o DayItems \o <<Lit(","), WS1>> \o YearItems,
        names |-> MonthFull],
       [pat |-> MonthItems(MonthAbbr) \o <<WS1>> \o DayItems \o <<Lit(","), WS1>> \o YearItems,
        names |-> MonthAbbr],
       [pat |-> MonthItems(MonthFull) \o <<WS1>> \o DayItems \o <<WS1>> \o YearItems,
        names |-> MonthFull],
       [pat |-> MonthItems(MonthAbbr) \o <<WS1>> \o DayItems \o <<WS1>> \o YearItems,
        names |-> MonthAbbr] >>

IsLeap(y) == y % 4 = 0 /\ (y % 100 # 0 \/ y % 400 = 0)

DaysIn(month, year) ==
    IF month = 2 THEN (IF IsLeap(year) THEN 29 ELSE 28)
    ELSE IF month \in {4, 6, 9, 11} THEN 30 ELSE 31

\* the datetime of the match m of fmt at the start of date_str; None stands for
\* ValueError (no match, unconverted data left, or no such date)
DateOfMatch(date_str, fmt, m) ==
    IF ~m.ok \/ m.end # Len(date_str) + 1 THEN None
    ELSE LET year == ToInt(Group(date_str, m, 1))
             mtext == lower(Group(date_str, m, 2))
             month == IF fmt.names = <<>> THEN ToInt(mtext)
                      ELSE CHOOSE i \in 1..12 : lower(fmt.names[i]) = mtext
             day == ToInt(strip(Group(date_str, m, 3)))
         IN  IF year < 1 \/ day > DaysIn(month, year) THEN None
             ELSE Some([year |-> year, month |-> month, day |-> day])

\* datetime.strptime(date_str, fmt)
strptime(date_str, fmt) == DateOfMatch(date_str, fmt, re_match(fmt.pat, date_str, TRUE))

\* dt.strftime('%Y-%m-%d') (a year of four digits, as glibc prints years >= 1000)
strftime(dt) ==
    ZeroPad(IntToStr(dt.year), 4) \o "-" \o ZeroPad(IntToStr(dt.month), 2)
      \o "-" \o ZeroPad(IntToStr(dt.day), 2)

\* the first attempt if it gave a value, the next one otherwise
OrNext(first, next) == IF first.some THEN first ELSE next

\* return dt.strftime('%Y-%m-%d')
Formatted(dt) == IF dt.some THEN Some(strftime(dt.v)) ELSE None

RECURSIVE NormalizeFrom(_, _)
NormalizeFrom(date_str, i) ==
    IF i > Len(formats) THEN None
    ELSE OrNext(Formatted(strptime(date_str, formats[i])), NormalizeFrom(date_str, i + 1))

_normalize_date(date_str) == NormalizeFrom(date_str, 1)

----------------------------------------------------------------------------
(* extractor.py: the field extractors *)

\* match.group(1).strip() / match.group(0) / match.group(1) of a match, None of none
StrippedGroup1(text, m) == IF m.ok THEN Some(strip(Group(text, m, 1))) ELSE None
WholeMatch(text, m) == IF m.ok THEN Some(Group0(text, m)) ELSE None
Group1(text, m) == IF m.ok THEN Some(Group(text, m, 1)) ELSE None

RECURSIVE WithPatternsFrom(_, _, _)
WithPatternsFrom(text_lower, patterns, i) ==
    IF i > Len(patterns) THEN None
    ELSE OrNext(StrippedGroup1(text_lower, re_search(patterns[i], text_lower, TRUE)),
                WithPatternsFrom(text_lower, patterns, i + 1))

_extract_with_patterns(text, patterns) == WithPatternsFrom(lower(text), patterns, 1)

\* normalized = self._normalize_date(match.group(0)); `if normalized:`
NormalizedMatch(date_str) ==
    IF date_str.some THEN TruthyOrNone(_normalize_date(date_str.v)) ELSE None

RECURSIVE DateFrom(_, _)
DateFrom(text, i) ==
    IF i > Len(date_patterns) THEN None
    ELSE OrNext(NormalizedMatch(WholeMatch(text, re_search(date_patterns[i], text, TRUE))),
                DateFrom(text, i + 1))

RECURSIVE DateOfFirstShape(_, _)
\* the loop returning what the first pattern with a match gives, parsed or not
DateOfFirstShape(text, i) ==
    IF i > Len(date_patterns) THEN None
    ELSE IF re_search(date_patterns[i], text, TRUE).ok
         THEN NormalizedMatch(WholeMatch(text, re_search(date_patterns[i], text, TRUE)))
         ELSE DateOfFirstShape(text, i + 1)

\* _extract_date leaving the loop at the first pattern that matches
_extract_date_first_shape(text) == DateOfFirstShape(text, 1)

_extract_date(text) == DateFrom(text, 1)

\* float(match.group(1).replace(',', '')); ValueError is None
AmountOf(amount_str) == IF amount_str.some THEN ParseFloat(Remove(amount_str.v, ",")) ELSE None

RECURSIVE AmountFrom(_, _)
AmountFrom(text_lower, i) ==
    IF i > Len(amount_patterns) THEN None
    ELSE OrNext(AmountOf(Group1(text_lower, re_search(amount_patterns[i], text_lower, TRUE))),
                AmountFrom(text_lower, i + 1))

_extract_amount(text) == AmountFrom(lower(text), 1)

_extract_company_name(text) == StrippedGroup1(text, re_search(company_pattern, text, FALSE))

RECURSIVE SplitOn(_, _)
\* s.split(c)
SplitOn(s, c) ==
    IF ~Contains(s, c) THEN <<s>>
    ELSE LET i == CHOOSE j \in 1..Len(s) :
                    Char(s, j) = c /\ \A h \in 1..(j - 1) : Char(s, h) # c
         IN  <<SubSeq(s, 1, i - 1)>> \o SplitOn(SubSeq(s, i + 1, Len(s)), c)

RECURSIVE Words(_)
\* s.split()
Words(s) ==
    LET t == lstrip(s)
        n == IF \E j \in 1..Len(t) : Char(t, j) \in Whitespace
             THEN (CHOOSE j \in 1..Len(t) :
                     Char(t, j) \in Whitespace /\ \A h \in 1..(j - 1) : Char(t, h) \notin Whitespace) - 1
             ELSE Len(t)
    IN  IF t = "" THEN <<>> ELSE <<SubSeq(t, 1, n)>> \o Words(SubSeq(t, n + 1, Len(t)))

NameHeaders == <<"resume", "cv", "curriculum">>

IsNameLine(line) ==
    LET words == Words(strip(line)) IN
    /\ 2 <= Len(words) /\ Len(words) <= 4
    /\ \A i \in 1..Len(words) : Char(words[i], 1) \in Letter => Char(words[i], 1) \in UpperLetter
    /\ ~\E h \in 1..Len(NameHeaders) : Contains(lower(line), NameHeaders[h])

RECURSIVE NameFrom(_, _)
NameFrom(lines, i) ==
    IF i > Len(lines) \/ i > 5 THEN None
    ELSE IF IsNameLine(lines[i]) THEN Some(strip(lines[i]))
    ELSE NameFrom(lines, i + 1)

_extract_name(text) == NameFrom(SplitOn(text, "\n"), 1)

_extract_email(text) == WholeMatch(text, re_search(email_pattern, text, FALSE))

RECURSIVE PhoneFrom(_, _)
PhoneFrom(text, i) ==
    IF i > Len(phone_patterns) THEN None
    ELSE OrNext(WholeMatch(text, re_search(phone_patterns[i], text, FALSE)),
                PhoneFrom(text, i + 1))

_extract_phone(text) == PhoneFrom(text, 1)

\* int(match.group(1)), of digits only
IntOf(digits) == IF digits.some THEN Some(ToInt(digits.v)) ELSE None

RECURSIVE ExperienceFrom(_, _)
ExperienceFrom(text_lower, i) ==
    IF i > Len(experience_patterns) THEN None
    ELSE OrNext(IntOf(Group1(text_lower, re_search(experience_patterns[i], text_lower, FALSE))),
                ExperienceFrom(text_lower, i + 1))

_extract_experience_years(text) == ExperienceFrom(lower(text), 1)

\* float(match.group(1)); ValueError is None
FloatOf(s) == IF s.some THEN ParseFloat(s.v) ELSE None

UsageIn(text_lower) == FloatOf(Group1(text_lower, re_search(usage_pattern, text_lower, FALSE)))

_extract_usage(text) == UsageIn(lower(text))

----------------------------------------------------------------------------
(* extractor.py: the per-type records *)

\* data = {}; a dict is a function from the keys present
EmptyDict == <<>>

\* data[key] = value
Put(data, key, value) == (key :> value) @@ data

\* `if value: data[key] = value`, by the type of the value
PutStr(data, key, o) == IF TruthyStr(o) THEN Put(data, key, o.v) ELSE data
PutUpper(data, key, o) == IF TruthyStr(o) THEN Put(data, key, upper(o.v)) ELSE data
PutFloat(data, key, o) == IF TruthyFloat(o) THEN Put(data, key, o.v) ELSE data
PutInt(data, key, o) == IF TruthyInt(o) THEN Put(data, key, o.v) ELSE data

_extract_invoice(text) ==
    PutFloat(
      PutStr(
        PutStr(
          PutUpper(EmptyDict, "invoice_number",
                   _extract_with_patterns(text, invoice_number_patterns)),
          "date", _extract_date(text)),
        "company", _extract_company_name(text)),
      "total_amount", _extract_amount(text))

_extract_resume(text) ==
    PutInt(
      PutStr(
        PutStr(
          PutStr(EmptyDict, "name", _extract_name(text)),
          "email", _extract_email(text)),
        "phone", _extract_phone(text)),
      "experience_years", _extract_experience_years(text))

_extract_utility_bill(text) ==
    PutFloat(
      PutFloat(
        PutStr(
          PutUpper(EmptyDict, "account_number",
                   _extract_with_patterns(text, <<account_number_pattern>>)),
          "date", _extract_date(text)),
        "usage_kwh", _extract_usage(text)),
      "amount_due", _extract_amount(text))

extract(text, doc_type) ==
    IF doc_type = "Invoice" THEN _extract_invoice(text)
    ELSE IF doc_type = "Resume" THEN _extract_resume(text)
    ELSE IF doc_type = "Utility Bill" THEN _extract_utility_bill(text)
    ELSE EmptyDict

----------------------------------------------------------------------------
(* retrieval.py: SemanticRetrieval *)

\* Document(page_content=text, metadata={"filename": filename})
Document(text, filename) == [page_content |-> text, filename |-> filename]

\* add_document, lines 45-57: FAISS.from_documents([doc]) for a name that is
\* not in vectorstores, add_documents([doc]) otherwise
AddToStore(vs, index_name, doc) ==
    IF index_name \notin DOMAIN vs
    THEN (index_name :> <<doc>>) @@ vs
    ELSE [vs EXCEPT ![index_name] = Append(@, doc)]

\* _save_index: save_local writes the whole store of index_name to
\* data/models/<index_name>; ok = FALSE is save_local (or makedirs) raising,
\* which is caught and logged. raised tells whether an exception leaves
\* _save_index.
\* _save_index that never reaches save_local
_save_index_skipped(vs, dsk, index_name, ok) == [disk |-> dsk, raised |-> FALSE]

\* _save_index without the except clause: the failure of save_local leaves it
_save_index_raising(vs, dsk, index_name, ok) ==
    IF index_name \notin DOMAIN vs THEN [disk |-> dsk, raised |-> FALSE]
    ELSE IF ok THEN [disk |-> (index_name :> vs[index_name]) @@ dsk, raised |-> FALSE]
    ELSE [disk |-> dsk, raised |-> TRUE]

_save_index(vs, dsk, index_name, ok) ==
    IF index_name \notin DOMAIN vs THEN [disk |-> dsk, raised |-> FALSE]
    ELSE IF ok THEN [disk |-> (index_name :> vs[index_name]) @@ dsk, raised |-> FALSE]
    ELSE [disk |-> dsk, raised |-> FALSE]

SnippetLen == 300

\* the snippet with the ellipsis from 300 characters on
text_snippet_inclusive(page_content) ==
    IF Len(page_content) >= SnippetLen
    THEN Prefix(page_content, SnippetLen) \o "..."
    ELSE page_content

\* doc.page_content[:300] + "..." if len(doc.page_content) > 300 else doc.page_content
text_snippet(page_content) ==
    IF Len(page_content) > SnippetLen
    THEN Prefix(page_content, SnippetLen) \o "..."
    ELSE page_content

RECURSIVE Nearest(_, _, _)
\* similarity_search_with_score: the positions of the k nearest entries, by
\* ascending distance (dist[i] is the distance of entry i to the query), of the
\* entries in left
Nearest(dist, left, k) ==
    IF k = 0 \/ left = {} THEN <<>>
    ELSE LET i == CHOOSE j \in left :
                    \A h \in left : dist[j] < dist[h] \/ (dist[j] = dist[h] /\ j <= h)
         IN  <<i>> \o Nearest(dist, left \ {i}, k - 1)

\* search that raises for a name that is not in vectorstores
search_raising(vs, index_name, top_k, dist, fails) ==
    IF index_name \notin DOMAIN vs
    THEN [results |-> <<>>, raised |-> TRUE, vectorstores |-> vs]
    ELSE IF fails THEN [results |-> <<>>, raised |-> FALSE, vectorstores |-> vs]
    ELSE LET store == vs[index_name]
             hits == Nearest(dist, 1..Len(store), top_k)
         IN  [results |->
                [i \in 1..Len(hits) |->
                    [rank |-> i,
                     filename |-> store[hits[i]].filename,
                     score |-> dist[hits[i]],
                     text_snippet |-> text_snippet(store[hits[i]].page_content)]],
              raised |-> FALSE,
              vectorstores |-> vs]

\* search: dist is what the embedding of the query and the index give, fails
\* is the similarity search raising (caught: the result is []). The result
\* carries the results, whether an exception leaves search, and vectorstores as
\* search leaves it.
search(vs, index_name, top_k, dist, fails) ==
    IF index_name \notin DOMAIN vs
    THEN [results |-> <<>>, raised |-> FALSE, vectorstores |-> vs]
    ELSE IF fails THEN [results |-> <<>>, raised |-> FALSE, vectorstores |-> vs]
    ELSE LET store == vs[index_name]
             hits == Nearest(dist, 1..Len(store), top_k)
         IN  [results |->
                [i \in 1..Len(hits) |->
                    [rank |-> i,
                     filename |-> store[hits[i]].filename,
                     score |-> dist[hits[i]],
                     text_snippet |-> text_snippet(store[hits[i]].page_content)]],
              raised |-> FALSE,
              vectorstores |-> vs]

----------------------------------------------------------------------------
(* Bounds and inputs *)

\* upload requests in flight at once
NumRequests == 2
\* uploads accepted over a run
MaxUploads == 2
\* fragments per text given to classify, and to extract
MaxFragments == 3
MaxParts == 2

RECURSIVE Filler(_)
\* n characters that no pattern and no keyword holds
Filler(n) ==
    IF n = 0 THEN "" ELSE IF n = 1 THEN ";"
    ELSE Filler(n \div 2) \o Filler(n - n \div 2)

\* the uploaded files: name, and the text extract_text gets from the file
\* (one of exactly SnippetLen characters, one longer); c.txt is not a PDF
InvoiceText == "Invoice: A-1 tax vat Total: 0 "
ResumeText == "Jo Li resume skills education 0 years experience "
Files ==
    { [filename |-> "a.pdf", text |-> InvoiceText \o Filler(SnippetLen - Len(InvoiceText))],
      [filename |-> "b.pdf", text |-> ResumeText \o Filler(SnippetLen + 5 - Len(ResumeText))],
      [filename |-> "c.txt", text |-> "plain text file"] }

IndexNames == {"default", "docs"}

\* top_k as a client may send it: around the sizes a store can have, and
\* around the limits of SearchRequest
TopKs == {0, 1, MaxUploads, 20, 21}

\* distances the similarity search may report
Distances == {0, 1}

\* what the similarity search over a store of n entries does: it raises, or it
\* gives each entry its distance to the query
SearchOutcomes(n) ==
    {[fails |-> TRUE, dist |-> <<>>]} \cup {[fails |-> FALSE, dist |-> d] : d \in [1..n -> Distances]}

Scores == {29, 30, 49, 50, 91}

ClassifierOutcomes ==
    {ClassifierRaises}
      \cup {ClassifierReturns(DOCUMENT_TYPES[i], sc) : i \in 1..Len(DOCUMENT_TYPES), sc \in Scores}

\* the outcomes drawn for the classifier call of an upload
UploadOutcomes == {ClassifierRaises, ClassifierReturns("Other", 91)}

RECURSIVE Concats(_, _)
\* the concatenations of at most n fragments
Concats(frags, n) ==
    IF n = 0 THEN {""}
    ELSE LET shorter == Concats(frags, n - 1)
         IN  shorter \cup {s \o f : s \in shorter, f \in frags}

ClassifyFragments ==
    {"     ", "tax ", "Vat", "gas water kwh ", "invoice number ", "a b c d e f",
     "resume experience education skills "}
ClassifyTexts == Concats(ClassifyFragments, MaxFragments)

ExtractFragments ==
    {"total: ", "0", "12.50", " kwh ", " years experience ", "invoice: a-1 ",
     "2024-01-15 ", "2024-13-01 ", "03/04/2025 ", "15-01-2024 ", "Jan 5, 2024 ",
     "a@b.co ", "Al Bo\n"}
ExtractTexts == Concats(ExtractFragments, MaxParts)

\* classify and extract are pure: their values on the texts of the uploaded
\* files ("" is what a failed extract_text gives), computed once
UploadTexts == {f.text : f \in Files} \cup {""}
ClassifiedTexts ==
    {[text |-> text, outcome |-> outcome, result |-> classify(text, outcome)] :
        text \in UploadTexts, outcome \in UploadOutcomes}
Classified(text, outcome) ==
    (CHOOSE c \in ClassifiedTexts : c.text = text /\ c.outcome = outcome).result
ExtractedTexts ==
    {[text |-> text, doc_type |-> DOCUMENT_TYPES[i], result |-> extract(text, DOCUMENT_TYPES[i])] :
        text \in UploadTexts, i \in 1..Len(DOCUMENT_TYPES)}
Extracted(text, doc_type) ==
    (CHOOSE e \in ExtractedTexts : e.text = text /\ e.doc_type = doc_type).result

----------------------------------------------------------------------------
(* State *)

VARIABLES
    vectorstores,   \* retrieval.vectorstores: index name -> its documents, in order
    disk,           \* data/models/<index name>: the store last saved there
    output,         \* output.json: filename -> result
    pc,             \* per request slot: where its upload_document coroutine is
    req,            \* per request slot: the locals of upload_document
    running,        \* the request whose coroutine holds the event loop, or 0
    response,       \* what the last step returned to its client
    uploads,        \* uploads accepted so far
    clsCall,            \* a call of classify: its arguments and its result
    extCall             \* a call of extract: its arguments and its result

vars == <<vectorstores, disk, output, pc, req, running, response, uploads, clsCall, extCall>>

Requests == 1..NumRequests


\* the locals of upload_document; saved is whether the save in _save_index went through
NoReq ==
    [filename |-> "", index_name |-> "", text |-> "", class |-> "",
     extracted |-> EmptyDict, saved |-> FALSE]

NoResponse == [of |-> "none"]

NoCall == [text |-> "", done |-> FALSE]

\* a coroutine gives the event loop up where it awaits, and keeps it everywhere else
YieldsAtSave(p) == p \in {"reading", "save"}

\* a coroutine gives the event loop back where it awaits: upload_document
\* awaits only file.read()
Yields(p) == p = "reading"

\* who holds the event loop once request r has moved to position p
Holder(r, p) == IF p = "idle" \/ Yields(p) THEN 0 ELSE r

\* what upload_document answers: the status, the body, and of the request its
\* file, its collection and whether its save went through; cause names the
\* step whose exception became the 500
UploadResponse(r, status, body, cause) ==
    [of |-> "upload", status |-> status, body |-> body, cause |-> cause,
     filename |-> req[r].filename, index_name |-> req[r].index_name,
     saved |-> req[r].saved]

\* raise HTTPException(status_code=...)
HttpError(r, status, cause) == UploadResponse(r, status, EmptyDict, cause)

EndsWith(s, suffix) ==
    Len(s) >= Len(suffix) /\ SubSeq(s, Len(s) - Len(suffix) + 1, Len(s)) = suffix

\* the text extract_text gets from the file a request uploaded
TextOf(filename) == (CHOOSE f \in Files : f.filename = filename).text

IndexInit ==
    /\ vectorstores = <<>>
    /\ disk = <<>>
    /\ output = <<>>
    /\ pc = [r \in Requests |-> "idle"]
    /\ req = [r \in Requests |-> NoReq]
    /\ running = 0
    /\ response = NoResponse
    /\ uploads = 0

Init ==
    /\ IndexInit
    /\ clsCall = NoCall
    /\ extCall = NoCall

----------------------------------------------------------------------------
(* main.py: the handlers. A step of a request needs the event loop: it is  *)
(* free (running = 0) or the request holds it.                             *)

\* upload_document, lines 87-98: the file type check, then up to `await file.read()`.
\* A new request takes the first free slot.
UploadStart(r, file, index_name) ==
    /\ pc[r] = "idle"
    /\ \A q \in Requests : q < r => pc[q] # "idle"
    /\ running = 0
    /\ uploads < MaxUploads
    /\ IF ~EndsWith(file.filename, ".pdf")
       THEN /\ response' = [of |-> "upload", status |-> 400, body |-> EmptyDict,
                            cause |-> "type", filename |-> file.filename,
                            index_name |-> index_name, saved |-> FALSE]
            /\ UNCHANGED <<pc, req, uploads>>
       ELSE /\ pc' = [pc EXCEPT ![r] = "reading"]
            /\ req' = [req EXCEPT ![r] = [NoReq EXCEPT !.filename = file.filename,
                                                       !.index_name = index_name]]
            /\ uploads' = uploads + 1
            /\ response' = NoResponse
    /\ UNCHANGED <<vectorstores, disk, output, running, clsCall, extCall>>

\* upload_document, lines 98-116: the read returns, then extract_text (which
\* gives "" when it fails), classify and extract
UploadRead(r, text, outcome) ==
    /\ pc[r] = "reading"
    /\ running \in {0, r}
    /\ IF text = ""
       THEN /\ response' = HttpError(r, 400, "text")
            /\ pc' = [pc EXCEPT ![r] = "idle"]
            /\ req' = [req EXCEPT ![r] = NoReq]
            /\ running' = 0
       ELSE IF Classified(text, outcome).raised
       THEN /\ response' = HttpError(r, 500, "classify")
            /\ pc' = [pc EXCEPT ![r] = "idle"]
            /\ req' = [req EXCEPT ![r] = NoReq]
            /\ running' = 0
       ELSE /\ pc' = [pc EXCEPT ![r] = "add"]
            /\ req' = [req EXCEPT ![r].text = text,
                                  ![r].class = Classified(text, outcome).label,
                                  ![r].extracted =
                                      Extracted(text, Classified(text, outcome).label)]
            /\ running' = Holder(r, "add")
            /\ response' = NoResponse
    /\ UNCHANGED <<vectorstores, disk, output, uploads, clsCall, extCall>>

\* add_document, lines 45-57: embed the text and put the document into the
\* store; embeds = FALSE is the embedding raising, which add_document does not
\* catch and upload_document turns into a 500
AddAppend(r, embeds) ==
    /\ pc[r] = "add"
    /\ running \in {0, r}
    /\ IF ~embeds
       THEN /\ response' = HttpError(r, 500, "embed")
            /\ pc' = [pc EXCEPT ![r] = "idle"]
            /\ req' = [req EXCEPT ![r] = NoReq]
            /\ running' = 0
            /\ UNCHANGED vectorstores
       ELSE /\ vectorstores' = AddToStore(vectorstores, req[r].index_name,
                                          Document(req[r].text, req[r].filename))
            /\ pc' = [pc EXCEPT ![r] = "save"]
            /\ running' = Holder(r, "save")
            /\ response' = NoResponse
            /\ UNCHANGED req
    /\ UNCHANGED <<disk, output, uploads, clsCall, extCall>>

\* add_document, line 60: self._save_index(index_name)
AddSave(r, ok) ==
    /\ pc[r] = "save"
    /\ running \in {0, r}
    /\ disk' = _save_index(vectorstores, disk, req[r].index_name, ok).disk
    /\ IF _save_index(vectorstores, disk, req[r].index_name, ok).raised
       THEN /\ response' = HttpError(r, 500, "save")
            /\ pc' = [pc EXCEPT ![r] = "idle"]
            /\ req' = [req EXCEPT ![r] = NoReq]
            /\ running' = 0
       ELSE /\ pc' = [pc EXCEPT ![r] = "output"]
            /\ req' = [req EXCEPT ![r].saved = ok]
            /\ running' = Holder(r, "output")
            /\ response' = NoResponse
    /\ UNCHANGED <<vectorstores, output, uploads, clsCall, extCall>>

\* upload_document, lines 121-127: result = {filename, index_name, class, **extracted_data}
Result(r) ==
    req[r].extracted @@
        [filename |-> req[r].filename, index_name |-> req[r].index_name,
         class |-> req[r].class]

\* upload_document, lines 121-143: the result, merged into output.json under
\* the filename; written = FALSE is reading or writing output.json raising
UploadFinish(r, written) ==
    /\ pc[r] = "output"
    /\ running \in {0, r}
    /\ IF written
       THEN /\ output' = (req[r].filename :> Result(r)) @@ output
            /\ response' = UploadResponse(r, 200, Result(r), "")
       ELSE /\ response' = HttpError(r, 500, "output")
            /\ UNCHANGED output
    /\ pc' = [pc EXCEPT ![r] = "idle"]
    /\ req' = [req EXCEPT ![r] = NoReq]
    /\ running' = 0
    /\ UNCHANGED <<vectorstores, disk, uploads, clsCall, extCall>>

\* search_documents, lines 170-186: the response built from what search returned
SearchResponse(request, s) ==
    IF s.raised
    THEN [of |-> "search", status |-> 500, request |-> request,
          results |-> <<>>, total_results |-> 0]
    ELSE [of |-> "search", status |-> 200, request |-> request,
          results |-> [i \in 1..Len(s.results) |->
                         [rank |-> s.results[i].rank,
                          filename |-> s.results[i].filename,
                          similarity_score |-> s.results[i].score,
                          text_snippet |-> s.results[i].text_snippet]],
          total_results |-> Len(s.results)]

\* the entries of collection index_name in vs
SizeOf(vs, index_name) == IF index_name \in DOMAIN vs THEN Len(vs[index_name]) ELSE 0

\* search_documents, after SearchRequest has validated the body (top_k in
\* [1,20], else 422 before the handler runs); it awaits nothing
Search(index_name, top_k, outcome) ==
    /\ running = 0
    /\ IF top_k < 1 \/ top_k > 20
       THEN /\ response' = [of |-> "search", status |-> 422,
                            request |-> [index_name |-> index_name, top_k |-> top_k,
                                         known |-> index_name \in DOMAIN vectorstores,
                                         fails |-> outcome.fails],
                            results |-> <<>>, total_results |-> 0]
            /\ UNCHANGED vectorstores
       ELSE /\ vectorstores' =
                 search(vectorstores, index_name, top_k, outcome.dist, outcome.fails).vectorstores
            /\ response' =
                 SearchResponse([index_name |-> index_name, top_k |-> top_k,
                                 known |-> index_name \in DOMAIN vectorstores,
                                 fails |-> outcome.fails],
                                search(vectorstores, index_name, top_k, outcome.dist,
                                       outcome.fails))
    /\ UNCHANGED <<disk, output, pc, req, running, uploads, clsCall, extCall>>

\* the process is stopped and started again: startup_event makes a new, empty
\* SemanticRetrieval (its load_index call is commented out); the requests in
\* flight are gone; the files stay
Restart ==
    /\ vectorstores' = <<>>
    /\ pc' = [r \in Requests |-> "idle"]
    /\ req' = [r \in Requests |-> NoReq]
    /\ running' = 0
    /\ response' = NoResponse
    /\ UNCHANGED <<disk, output, uploads, clsCall, extCall>>

Next ==
    \/ \E r \in Requests, file \in Files, index_name \in IndexNames :
            UploadStart(r, file, index_name)
    \/ \E r \in Requests, failed \in BOOLEAN, outcome \in UploadOutcomes :
            UploadRead(r, IF failed THEN "" ELSE TextOf(req[r].filename), outcome)
    \/ \E r \in Requests, embeds \in BOOLEAN : AddAppend(r, embeds)
    \/ \E r \in Requests, ok \in BOOLEAN : AddSave(r, ok)
    \/ \E r \in Requests, written \in BOOLEAN : UploadFinish(r, written)
    \/ \E index_name \in IndexNames, top_k \in TopKs :
         \E outcome \in SearchOutcomes(SizeOf(vectorstores, index_name)) :
            Search(index_name, top_k, outcome)
    \/ Restart

Spec == Init /\ [][Next]_vars

----------------------------------------------------------------------------
(* classify and extract on their own: a call with arguments drawn from the *)
(* bounded input sets, and the step that makes it                          *)

ClassifyCalls ==
    {[text |-> t, outcome |-> o, done |-> FALSE, result |-> ClassifyResult("", 0, "")] :
        t \in ClassifyTexts, o \in ClassifierOutcomes}

InitClassify ==
    /\ IndexInit
    /\ clsCall \in ClassifyCalls
    /\ extCall = NoCall

\* doc_type = classifier.classify(text, file.filename)
Classify ==
    /\ ~clsCall.done
    /\ clsCall' = [clsCall EXCEPT !.done = TRUE, !.result = classify(clsCall.text, clsCall.outcome)]
    /\ UNCHANGED <<vectorstores, disk, output, pc, req, running, response, uploads, extCall>>

NextClassify == Classify

SpecClassify == InitClassify /\ [][NextClassify]_vars

ExtractCalls ==
    {[text |-> t, doc_type |-> DOCUMENT_TYPES[i], done |-> FALSE, result |-> EmptyDict] :
        t \in ExtractTexts, i \in 1..Len(DOCUMENT_TYPES)}

InitExtract ==
    /\ IndexInit
    /\ clsCall = NoCall
    /\ extCall \in ExtractCalls

\* extracted_data = extractor.extract(text, doc_type)
Extract ==
    /\ ~extCall.done
    /\ extCall' = [extCall EXCEPT !.done = TRUE, !.result = extract(extCall.text, extCall.doc_type)]
    /\ UNCHANGED <<vectorstores, disk, output, pc, req, running, response, uploads, clsCall>>

NextExtract == Extract

SpecExtract == InitExtract /\ [][NextExtract]_vars

----------------------------------------------------------------------------
(* Properties of the index: retrieval.py and main.py, under Spec           *)

Last(seq) == seq[Len(seq)]

IsPrefix(a, b) == Len(a) <= Len(b) /\ SubSeq(b, 1, Len(a)) = a

Min(a, b) == IF a <= b THEN a ELSE b

\* the document request r put, or is putting, into its collection
DocOf(r) == Document(req[r].text, req[r].filename)

\* C1: the persisted entry sequence of a collection only ever grows by append,
\* also across restarts: every step leaves each persisted collection persisted,
\* with the entries it had as a prefix of the entries it has.
C1_AppendOnlyOnDisk ==
    [][\A c \in DOMAIN disk : c \in DOMAIN disk' /\ IsPrefix(disk[c], disk'[c])]_vars

\* C2: adds to one collection are serialized. While a request is between its
\* append and its persist, no other request to the same collection is, and
\* the collection still ends with its document; the files of a collection
\* change only by the persist step of a request, to the collection as the
\* append of that same request left it.
C2_AddsSerialized ==
    [][/\ \A r \in Requests : pc'[r] = "save" =>
             /\ \A q \in Requests \ {r} :
                    pc'[q] = "save" => req'[q].index_name # req'[r].index_name
             /\ req'[r].index_name \in DOMAIN vectorstores'
             /\ Last(vectorstores'[req'[r].index_name]) =
                    Document(req'[r].text, req'[r].filename)
       /\ \A c \in DOMAIN disk' :
             (c \notin DOMAIN disk \/ disk'[c] # disk[c]) =>
                \E r \in Requests :
                    /\ pc[r] = "save" /\ pc'[r] = "output"
                    /\ req[r].index_name = c
                    /\ disk'[c] = vectorstores[c]
                    /\ Last(disk'[c]) = DocOf(r)]_vars

\* two uploads to one collection in flight, one of them between append and persist
C2_Witness ==
    \E r \in Requests, q \in Requests :
        /\ r # q
        /\ pc[r] = "save"
        /\ pc[q] = "reading"
        /\ req[r].index_name = req[q].index_name
        /\ Last(vectorstores[req[r].index_name]) = DocOf(r)

\* C3: once add has returned and its save went through, the collection on disk
\* is the collection in memory, entry by entry, with no further call.
C3_DiskEqualsMemoryAfterAdd ==
    \A r \in Requests :
        (pc[r] = "output" /\ req[r].saved) =>
            /\ req[r].index_name \in DOMAIN disk
            /\ req[r].index_name \in DOMAIN vectorstores
            /\ disk[req[r].index_name] = vectorstores[req[r].index_name]

\* an add to a collection that already had an entry has returned, saved
C3_Witness ==
    \E r \in Requests :
        /\ pc[r] = "output"
        /\ req[r].saved
        /\ Len(vectorstores[req[r].index_name]) >= 2
        /\ Last(disk[req[r].index_name]) = DocOf(r)

\* C4: a search of a collection that is not in the registry answers 200 with
\* no results and total_results = 0, and changes neither the registry nor the
\* files.
C4_UnknownCollectionSearch ==
    [][(/\ response'.of = "search"
        /\ response'.status # 422
        /\ ~response'.request.known) =>
            /\ response'.status = 200
            /\ response'.results = <<>>
            /\ response'.total_results = 0
            /\ UNCHANGED <<vectorstores, disk, output>>]_vars

\* an unknown collection searched while another collection has entries
C4_Witness ==
    /\ response.of = "search"
    /\ response.status = 200
    /\ ~response.request.known
    /\ response.request.index_name \notin DOMAIN vectorstores
    /\ vectorstores # <<>>
    /\ response.total_results = 0

\* the keys of the record an upload answers with
RecordKeys == {"filename", "index_name", "class"}

\* C8: a failed save does not leave add: add returns with the new entry kept
\* at the end of the collection in memory, no upload is answered with an error
\* that comes from the save, and an upload answered 200 carries its complete
\* record, whether its save went through or not; a later search that asks for
\* at least as many results as the collection has entries finds every entry.
C8_SaveFailureIsAbsorbed ==
    /\ \A r \in Requests :
          (pc[r] = "output" /\ ~req[r].saved) =>
              /\ req[r].index_name \in DOMAIN vectorstores
              /\ Last(vectorstores[req[r].index_name]) = DocOf(r)
    /\ response.of = "upload" =>
          /\ response.cause # "save"
          /\ response.status = 200 =>
                /\ RecordKeys \subseteq DOMAIN response.body
                /\ response.body.filename = response.filename
                /\ response.body.index_name = response.index_name
                /\ response.body.class \in {DOCUMENT_TYPES[i] : i \in 1..Len(DOCUMENT_TYPES)}
                /\ output[response.filename] = response.body
    /\ (/\ response.of = "search"
        /\ response.status = 200
        /\ response.request.known
        /\ ~response.request.fails
        /\ response.request.top_k >= Len(vectorstores[response.request.index_name])) =>
            \A i \in 1..Len(vectorstores[response.request.index_name]) :
                \E j \in 1..Len(response.results) :
                    response.results[j].filename =
                        vectorstores[response.request.index_name][i].filename

\* an upload whose save failed is answered 200 with its record, and its entry
\* is in memory and not on disk
C8_Witness ==
    /\ response.of = "upload"
    /\ response.status = 200
    /\ ~response.saved
    /\ response.index_name \in DOMAIN vectorstores
    /\ response.index_name \notin DOMAIN disk
    /\ "invoice_number" \in DOMAIN response.body

\* the source text of result j of a search answer: the text of an entry of the
\* searched collection with the result's filename (a filename names one text)
SourcesOf(j) ==
    {vectorstores[response.request.index_name][i].page_content :
        i \in {h \in 1..Len(vectorstores[response.request.index_name]) :
                 vectorstores[response.request.index_name][h].filename =
                     response.results[j].filename}}

\* the snippet of a source text, the way the claim states it
SnippetOf(source) ==
    IF Len(source) > 300 THEN SubSeq(source, 1, 300) \o "..." ELSE source

\* the results of a search answer have dense ranks from 1 and stated snippets
RanksAndSnippets ==
    \A j \in 1..Len(response.results) :
        /\ response.results[j].rank = j
        /\ SourcesOf(j) # {}
        /\ \A source \in SourcesOf(j) : response.results[j].text_snippet = SnippetOf(source)
        /\ Len(response.results[j].text_snippet) <= 303

\* C9 as stated: a search of a registered collection with n entries answers
\* exactly min(top_k, n) results, ranked 1..min(top_k, n), each with the
\* snippet of its source text.
C9_ExactlyMinResults ==
    (/\ response.of = "search"
     /\ response.status = 200
     /\ response.request.known) =>
        /\ Len(response.results) =
              Min(response.request.top_k, Len(vectorstores[response.request.index_name]))
        /\ response.total_results = Len(response.results)
        /\ RanksAndSnippets

\* C9 amended: the same, when the similarity search does not raise; when it
\* raises, the answer has no results.
C9_MinResultsUnlessSearchFails ==
    (/\ response.of = "search"
     /\ response.status = 200
     /\ response.request.known) =>
        /\ Len(response.results) =
              IF response.request.fails THEN 0
              ELSE Min(response.request.top_k,
                       Len(vectorstores[response.request.index_name]))
        /\ response.total_results = Len(response.results)
        /\ RanksAndSnippets

\* a collection of two entries searched with top_k = 1: one result, of rank 1,
\* whose source text is longer than 300 characters
C9_Witness ==
    /\ response.of = "search"
    /\ response.status = 200
    /\ response.request.known
    /\ ~response.request.fails
    /\ Len(vectorstores[response.request.index_name]) = 2
    /\ response.request.top_k = 1
    /\ Len(response.results) = 1
    /\ response.results[1].rank = 1
    /\ Len(response.results[1].text_snippet) = 303

----------------------------------------------------------------------------
(* Properties of classify, under SpecClassify                              *)

\* the characters of text that are not whitespace
NonWhitespace(text) == Cardinality({i \in 1..Len(text) : Char(text, i) \notin Whitespace})

\* the length of text from its first to its last character that is not whitespace
StrippedLen(text) ==
    IF NonWhitespace(text) = 0 THEN 0
    ELSE LET at == {i \in 1..Len(text) : Char(text, i) \notin Whitespace}
         IN  (CHOOSE i \in at : \A j \in at : j <= i)
               - (CHOOSE i \in at : \A j \in at : i <= j) + 1

\* C5 as stated: a text that is empty or has fewer than 10 characters that are
\* not whitespace is Unclassifiable, and the classifier is not called.
C5_FewNonWhitespaceSkipsClassifier ==
    (clsCall.done /\ NonWhitespace(clsCall.text) < 10) =>
        /\ clsCall.result.label = "Unclassifiable"
        /\ clsCall.result.invoked = 0

\* C5 amended: a text that is empty or is shorter than 10 characters once its
\* leading and trailing whitespace is removed (the whitespace inside it
\* counts) is Unclassifiable, and the classifier is not called.
C5_ShortStrippedSkipsClassifier ==
    (clsCall.done /\ StrippedLen(clsCall.text) < 10) =>
        /\ clsCall.result.label = "Unclassifiable"
        /\ clsCall.result.invoked = 0
        /\ ~clsCall.result.raised

\* a text of 10 characters or more, fewer than 10 without the whitespace
\* around it, with a classifier that would have answered
C5_Witness ==
    /\ clsCall.done
    /\ Len(clsCall.text) >= 10
    /\ StrippedLen(clsCall.text) \in 1..9
    /\ ~clsCall.outcome.raises
    /\ clsCall.outcome.score >= 30
    /\ clsCall.result.invoked = 0

\* C6: a top confidence below 0.30 gives Unclassifiable, whatever the label
\* and whatever keywords the text holds.
C6_BelowFloorIsUnclassifiable ==
    (/\ clsCall.done
     /\ clsCall.result.invoked = 1
     /\ ~clsCall.outcome.raises
     /\ clsCall.outcome.score < 30) =>
        clsCall.result.label = "Unclassifiable"

\* a confidence of 0.29 on a text with three Invoice keywords or more and a
\* label that is not Invoice: the override rule would have fired
C6_Witness ==
    /\ clsCall.done
    /\ clsCall.result.invoked = 1
    /\ ~clsCall.outcome.raises
    /\ clsCall.outcome.score = 29
    /\ clsCall.outcome.label = "Resume"
    /\ KeywordCount(lower(clsCall.text), invoice_keywords) >= 3
    /\ clsCall.result.label = "Unclassifiable"

\* C7: a failure of the classifier call does not leave classify: the result is
\* Unclassifiable; and classify calls the classifier at most once.
C7_ClassifierFailureIsUnclassifiable ==
    clsCall.done =>
        /\ ~clsCall.result.raised
        /\ clsCall.result.invoked \in {0, 1}
        /\ (clsCall.outcome.raises /\ clsCall.result.invoked = 1) =>
              clsCall.result.label = "Unclassifiable"

\* the classifier was called, once, and raised
C7_Witness ==
    /\ clsCall.done
    /\ clsCall.outcome.raises
    /\ clsCall.result.invoked = 1
    /\ clsCall.result.label = "Unclassifiable"
    /\ StrippedLen(clsCall.text) >= 10

----------------------------------------------------------------------------
(* Properties of _apply_rules, under SpecClassify: classify hands it the   *)
(* text, the classifier's label and its confidence once the confidence is  *)
(* 0.30 or more, and returns what it returns.                              *)

RuleCategories == <<"Invoice", "Resume", "Utility Bill">>
RuleKeywords == <<invoice_keywords, resume_keywords, utility_keywords>>

\* the call reached the rules: the classifier answered with 0.30 or more
RulesApplied ==
    /\ clsCall.done
    /\ clsCall.result.invoked = 1
    /\ ~clsCall.outcome.raises
    /\ clsCall.outcome.score >= 30

\* the categories with three or more of their keywords in the text that are
\* not the given label, by their place in the order Invoice, Resume, Utility Bill
Overriding(document, given) ==
    {k \in 1..3 : /\ KeywordCount(lower(document), RuleKeywords[k]) >= 3
                  /\ RuleCategories[k] # given}

\* the categories with three or more of their keywords in the text
Strong(document) ==
    {k \in 1..3 : KeywordCount(lower(document), RuleKeywords[k]) >= 3}

\* C11: the override is tried in the order Invoice, Resume, Utility Bill and
\* the first category with three or more keywords that differs from the
\* incoming label is returned, whatever the confidence (0.30 or more) and
\* whatever the counts of the later categories.
C11_FirstOverrideInOrderWins ==
    (RulesApplied /\ Overriding(clsCall.text, clsCall.outcome.label) # {}) =>
        \E k \in Overriding(clsCall.text, clsCall.outcome.label) :
            /\ \A j \in Overriding(clsCall.text, clsCall.outcome.label) : k <= j
            /\ clsCall.result.label = RuleCategories[k]

\* label Other at 0.91 on a text with three or more Invoice keywords and
\* three or more Resume keywords: Invoice, the first in the order, is returned
C11_Witness ==
    /\ RulesApplied
    /\ clsCall.outcome.label = "Other"
    /\ clsCall.outcome.score = 91
    /\ {1, 2} \subseteq Overriding(clsCall.text, "Other")
    /\ clsCall.result.label = "Invoice"

\* the categories, other than the given label, whose keywords occur three
\* times or more in the text, every occurrence counted
OverridingByOccurrence(document, given) ==
    {k \in 1..3 : /\ SumOver(lower(document), RuleKeywords[k], Len(RuleKeywords[k])) >= 3
                  /\ RuleCategories[k] # given}

\* the keywords of a category, by their place in its list, that occur in the
\* lowercased text, once or more
PresentIn(text_lower, k) ==
    {n \in 1..Len(RuleKeywords[k]) : Occurrences(text_lower, RuleKeywords[k][n]) # {}}

\* the keywords of a category that occur in the text
Present(document, k) == {RuleKeywords[k][n] : n \in PresentIn(lower(document), k)}

PresenceOver(text_lower, given) ==
    {k \in 1..3 : RuleCategories[k] # given /\ Cardinality(PresentIn(text_lower, k)) >= 3}

\* the categories, other than the given label, with three or more of their
\* keywords present in the text
OverridingByPresence(document, given) == PresenceOver(lower(document), given)

\* the label changed to a category exactly when it is the first of those in S
ChangesExactlyToFirst(S) ==
    \A k \in 1..3 :
        (/\ clsCall.result.label = RuleCategories[k]
         /\ clsCall.outcome.label # RuleCategories[k])
        <=> (k \in S /\ \A j \in S : k <= j)

\* C12 as stated: a category's count is the number of occurrences of its
\* keywords, repetitions counted, so that a category whose keywords occur
\* three times or more (one keyword three times included) reaches the
\* override threshold: the first such category that differs from the incoming
\* label is returned.
C12_RepetitionsReachThreshold ==
    (RulesApplied /\ OverridingByOccurrence(clsCall.text, clsCall.outcome.label) # {}) =>
        \E k \in OverridingByOccurrence(clsCall.text, clsCall.outcome.label) :
            /\ \A j \in OverridingByOccurrence(clsCall.text, clsCall.outcome.label) : k <= j
            /\ clsCall.result.label = RuleCategories[k]

\* C12 amended: a category's count is the number of its keywords that occur
\* in the text, each counted once however often it occurs: the label changes
\* to a category exactly when that category is the first, in the order, with
\* three or more of its keywords present and differs from the incoming
\* label, so one keyword repeated three times does not reach the threshold.
C12_EachKeywordCountsOnce ==
    RulesApplied =>
        ChangesExactlyToFirst(OverridingByPresence(clsCall.text, clsCall.outcome.label))

\* one Invoice keyword three times in the text and no other keyword, a label
\* that is not Invoice at 0.91: the label is kept
C12_Witness ==
    /\ RulesApplied
    /\ clsCall.outcome.label = "Resume"
    /\ clsCall.outcome.score = 91
    /\ Cardinality(Present(clsCall.text, 1)) = 1
    /\ Present(clsCall.text, 2) = {}
    /\ Present(clsCall.text, 3) = {}
    /\ 1 \in OverridingByOccurrence(clsCall.text, "Resume")
    /\ clsCall.result.label = "Resume"

\* no category has two or more of its keywords in the text
WeakRules(document) ==
    \A k \in 1..3 : KeywordCount(lower(document), RuleKeywords[k]) < 2

\* C13: when no override fires, the result is Other if the confidence is
\* below 0.50 and no category has two keywords or more, and in every other
\* case the incoming label unchanged.
C13_DemoteOnlyWhenBothWeak ==
    (RulesApplied /\ Overriding(clsCall.text, clsCall.outcome.label) = {}) =>
        IF clsCall.outcome.score < 50 /\ WeakRules(clsCall.text)
        THEN clsCall.result.label = "Other"
        ELSE clsCall.result.label = clsCall.outcome.label

\* no override, label Invoice at 0.49 on a text with one keyword: demoted to
\* Other
C13_Witness ==
    /\ RulesApplied
    /\ Overriding(clsCall.text, clsCall.outcome.label) = {}
    /\ clsCall.outcome.label = "Invoice"
    /\ clsCall.outcome.score = 49
    /\ KeywordCount(lower(clsCall.text), invoice_keywords) = 1
    /\ WeakRules(clsCall.text)
    /\ clsCall.result.label = "Other"

\* the rules applied once more, to the label classify returned, with the same
\* text and the same confidence
SecondPass == _apply_rules(clsCall.text, clsCall.result.label, clsCall.outcome.score)

\* C15 as stated: the rules are idempotent: the refined label, put through
\* the rules again with the same text and confidence, does not change,
\* also for a text in which two categories or more have three keywords.
C15_RulesIdempotent ==
    RulesApplied => SecondPass = clsCall.result.label

\* a second pass giving label again keeps the refined label exactly when at
\* most one category is in S, and otherwise goes from one category of S to another
SecondPassMovesWithin(S, again) ==
    /\ (Cardinality(S) <= 1) <=> (again = clsCall.result.label)
    /\ (Cardinality(S) >= 2) =>
          /\ \E k \in S : clsCall.result.label = RuleCategories[k]
          /\ \E k \in S : again = RuleCategories[k]

\* C15 amended: the refined label does not change on a second pass exactly
\* when at most one category has three or more keywords in the text; with two
\* or more such categories a second pass moves the label to another of them.
C15_IdempotentUnlessSeveralStrong ==
    RulesApplied => SecondPassMovesWithin(Strong(clsCall.text), SecondPass)

\* only Resume has three keywords or more, the label Other at 0.49 became
\* Resume, and a second pass keeps Resume
C15_Witness ==
    /\ RulesApplied
    /\ Strong(clsCall.text) = {2}
    /\ clsCall.outcome.label = "Other"
    /\ clsCall.outcome.score = 49
    /\ clsCall.result.label = "Resume"
    /\ SecondPass = "Resume"

----------------------------------------------------------------------------
(* Properties of extract, under SpecExtract                                *)

\* the fields of a label, each with what its extractor finds in text
FieldsOf(text, doc_type) ==
    IF doc_type = "Invoice"
    THEN [invoice_number |-> _extract_with_patterns(text, invoice_number_patterns),
          date |-> _extract_date(text),
          company |-> _extract_company_name(text),
          total_amount |-> _extract_amount(text)]
    ELSE IF doc_type = "Resume"
    THEN [name |-> _extract_name(text),
          email |-> _extract_email(text),
          phone |-> _extract_phone(text),
          experience_years |-> _extract_experience_years(text)]
    ELSE IF doc_type = "Utility Bill"
    THEN [account_number |-> _extract_with_patterns(text, <<account_number_pattern>>),
          date |-> _extract_date(text),
          usage_kwh |-> _extract_usage(text),
          amount_due |-> _extract_amount(text)]
    ELSE <<>>

\* C10: extract gives a mapping over the fields of the label in which a field
\* is left out only when its extraction failed: every field whose value was
\* found and parsed is there, a numeric 0 included, and no other key is.
C10_FoundFieldsArePopulated ==
    extCall.done =>
        /\ DOMAIN extCall.result \subseteq DOMAIN FieldsOf(extCall.text, extCall.doc_type)
        /\ \A field \in DOMAIN FieldsOf(extCall.text, extCall.doc_type) :
              FieldsOf(extCall.text, extCall.doc_type)[field].some =>
                  field \in DOMAIN extCall.result

\* the labels whose record has a date
DateTypes == {"Invoice", "Utility Bill"}

\* the date patterns, by their place in the list, that match somewhere in the
\* text, and those whose leftmost match parses under one of the formats
ShapeMatch(document, k) == re_search(date_patterns[k], document, TRUE)
Shapes(document) == {k \in 1..Len(date_patterns) : ShapeMatch(document, k).ok}
ParsedShape(document, k) == _normalize_date(Group0(document, ShapeMatch(document, k)))
ParsingShapes(document) == {k \in Shapes(document) : ParsedShape(document, k).some}
First(S) == CHOOSE k \in S : \A j \in S : k <= j

\* the record has the date o, or no date when o is None
DateIs(data, o) ==
    IF o.some THEN "date" \in DOMAIN data /\ data["date"] = o.v
    ELSE "date" \notin DOMAIN data

\* C14 as stated: date extraction commits to the first pattern that matches
\* anywhere in the text: its match, parsed and written YYYY-MM-DD, is the
\* date, and when no format parses that match there is no date, whatever a
\* later pattern matches.
C14_FirstMatchingShapeDecides ==
    (extCall.done /\ extCall.doc_type \in DateTypes) =>
        IF Shapes(extCall.text) = {} THEN "date" \notin DOMAIN extCall.result
        ELSE DateIs(extCall.result, ParsedShape(extCall.text, First(Shapes(extCall.text))))

\* C14 amended: the patterns are tried in their order and the first one whose
\* leftmost match parses gives the date, written YYYY-MM-DD; a pattern whose
\* match does not parse is passed over, and there is no date only when no
\* pattern has a match that parses.
C14_FirstParsingShapeDecides ==
    (extCall.done /\ extCall.doc_type \in DateTypes) =>
        IF ParsingShapes(extCall.text) = {} THEN "date" \notin DOMAIN extCall.result
        ELSE DateIs(extCall.result,
                    ParsedShape(extCall.text, First(ParsingShapes(extCall.text))))

\* the first pattern that matches has a match no format parses (a month 13),
\* a later pattern has one that parses, and the record has that date
C14_Witness ==
    /\ extCall.done
    /\ extCall.doc_type = "Invoice"
    /\ Shapes(extCall.text) # {}
    /\ ParsingShapes(extCall.text) # {}
    /\ First(Shapes(extCall.text)) < First(ParsingShapes(extCall.text))
    /\ "date" \in DOMAIN extCall.result
    /\ extCall.result["date"] = "2025-03-04"

====
